---- MODULE Spec2Model ----
(***************************************************************************)
(* State-machine model of the RL-Tutor web client (App, ChatPanel,         *)
(* WorkspacePanel, Header) together with the quiz backend it talks to.     *)
(* The client is translated from the React sources; every async handler   *)
(* is split at its await into a call step and a continuation step that    *)
(* works on the values its closure captured.  The backend (Flask routes,  *)
(* grading, hint arbitration) is not part of the sources and is modelled  *)
(* from the specification; those definitions are prefixed Server.         *)
(***************************************************************************)
EXTENDS Integers, Sequences, FiniteSets, Bags, TLC

(* ------------------------------ bounds --------------------------------- *)
MaxQuizzes == 2      \* quizzes the backend creates in one run
MaxQuestions == 2    \* largest question count of a quiz
MaxMessages == 5     \* chat log length explored
MaxSubmits == 2      \* submit requests in flight at once
MaxHintReqs == 2     \* hint requests in flight at once
MaxTurns == 6        \* chat exchanges held before a quiz is requested
MaxTime == 2         \* seconds the clock runs

(* ------------------------- program constants --------------------------- *)
RecentWindow == 10       \* messages.slice(-10)
ContextBudget == 2000    \* .slice(0, 2000)
RetryBudget == 2         \* re-drafts allowed per generation request

NoTopic == "null"                      \* generateQuiz(topic = null, ...)
Topics == {NoTopic, "Linear Algebra"}  \* caller-supplied topics explored
Difficulties == {"medium", "hard"}
AnswerChoices == {"A", "B"}            \* option letters a user can pick
UserInputs == {"explain groups", "  "} \* chat inputs, one of them blank
RECURSIVE Repeat(_, _)
Repeat(s, n) == IF n = 0 THEN "" ELSE s \o Repeat(s, n - 1)
LongInput == Repeat("0123456789", 40)  \* a chat input of 400 characters
ContextInputs == {"explain groups", LongInput}

VARIABLES
    sessionId,        \* App: useState(null); "" is null
    messages,         \* App: chat log
    quiz,             \* App: current quiz object, NoQuiz is null
    isWorkspaceOpen,  \* App
    isLoading,        \* App
    currentTopic,     \* App
    reviewMode,       \* App
    panel,            \* WorkspacePanel state of the mounted instance
    sessionReq,       \* POST chat/session in flight
    chatReq,          \* POST chat/message in flight
    genReq,           \* POST quiz/generate in flight
    submitReqs,       \* POST quiz/<id>/submit in flight
    hintReqs,         \* POST quiz/<id>/hint in flight
    srvQuizzes,       \* backend: QuizSessions created, index = quiz id
    srvResults,       \* backend: SubmissionResult per quiz id
    srvHints,         \* backend: HintRecord cache per (quiz, question)
    srvHintsGenerated, \* backend: hints generated so far per (quiz, question)
    srvHistory,       \* backend: the conversation turns stored for the session
    srvGen,           \* backend: the generation request being drafted
    srvTrajectories,  \* backend: the session's trajectory log
    uploadReq,        \* POST chat/upload in flight
    fileContext,      \* App: contexts of the files processed so far
    uploadingFile,    \* ChatPanel
    alertText,        \* the text of the last window.alert dialog, "" if none
    now,              \* Date.now(), in whole seconds
    shownAt           \* history: when each quiz was first displayed, -1 if never

vars == <<sessionId, messages, quiz, isWorkspaceOpen, isLoading, currentTopic,
          reviewMode, panel, sessionReq, chatReq, genReq, submitReqs, hintReqs,
          srvQuizzes, srvResults, srvHints, srvHintsGenerated, srvHistory,
          srvGen, srvTrajectories, uploadReq, fileContext, uploadingFile,
          alertText, now, shownAt>>

appVars == <<sessionId, messages, quiz, isWorkspaceOpen, isLoading,
             currentTopic, reviewMode>>
srvVars == <<srvQuizzes, srvResults, srvHints, srvHintsGenerated, srvHistory,
            srvGen, srvTrajectories>>
uploadVars == <<uploadReq, fileContext, uploadingFile, alertText>>

(* ------------------------------ values --------------------------------- *)
QuizIds == 1..MaxQuizzes

\* questions is the number of question objects (their ids are 1..questions);
\* withAnswers tells whether those objects carry correct_answer / explanation
NoQuiz == [id |-> 0, topic |-> "", questions |-> 0, totalQuestions |-> 0,
           withAnswers |-> FALSE]
\* the quiz copy kept inside a stored result: {id, title, topic, questions}
NoQuizCopy == [id |-> 0, topic |-> "", questions |-> 0, withAnswers |-> FALSE]
EmptyMap == [k \in {} |-> ""]

\* The data of a submit response; quiz_id 0 stands for "no result" (null).
NoResult == [quiz_id |-> 0, results |-> <<>>, correct_count |-> 0,
             total_questions |-> 0, percentage |-> 0]

\* fullQuizResult = {...data, quiz: {id, title, topic, questions}}
NoQuizResult == [data |-> NoResult, quiz |-> NoQuizCopy]

\* attachment of a chat message; type "" stands for "no attachment"
NoAttachment == [type |-> "", name |-> ""]

Message(role, content) ==
    [role |-> role, content |-> content, isSystem |-> FALSE,
     isError |-> FALSE, quizResult |-> NoQuizResult,
     attachment |-> NoAttachment]

\* String(question.id): object keys are the decimal strings of the ids.
String(n) == CASE n = 1 -> "1" [] n = 2 -> "2" [] n = 3 -> "3"
               [] n = 4 -> "4" [] OTHER -> "0"

\* question ids of a quiz object: the backend numbers them 1..n
QuestionIdsOf(q) == 1..q.questions
KeysOf(q) == {String(i) : i \in QuestionIdsOf(q)}

Put(f, k, v) == [x \in DOMAIN f \cup {k} |-> IF x = k THEN v ELSE f[x]]

(* --------------------------- string helpers ---------------------------- *)
RECURSIVE TrimLeft(_)
TrimLeft(s) == IF Len(s) > 0 /\ SubSeq(s, 1, 1) = " "
               THEN TrimLeft(SubSeq(s, 2, Len(s))) ELSE s
RECURSIVE TrimRight(_)
TrimRight(s) == IF Len(s) > 0 /\ SubSeq(s, Len(s), Len(s)) = " "
                THEN TrimRight(SubSeq(s, 1, Len(s) - 1)) ELSE s
Trim(s) == TrimRight(TrimLeft(s))

\* Array.prototype.slice(-n)
SliceLast(seq, n) == IF Len(seq) <= n THEN seq
                     ELSE SubSeq(seq, Len(seq) - n + 1, Len(seq))
\* String.prototype.slice(0, n)
SliceFirst(s, n) == IF Len(s) <= n THEN s ELSE SubSeq(s, 1, n)
\* Array.prototype.join(sep) over message contents
RECURSIVE Join(_, _)
Join(seq, sep) == IF Len(seq) = 0 THEN ""
                  ELSE IF Len(seq) = 1 THEN seq[1].content
                  ELSE seq[1].content \o sep \o Join(Tail(seq), sep)

\* generateQuiz: recentMessages / conversationContext
conversationContext(msgs) ==
    SliceFirst(Join(SliceLast(msgs, RecentWindow), " "), ContextBudget)


(* ------------------------ WorkspacePanel state ------------------------- *)
EmptyHints == [k \in {} |-> [quiz_id |-> 0, question_id |-> 0, serial |-> 0]]

\* useState initial values of a freshly mounted WorkspacePanel
FreshPanel ==
    [currentQuestion |-> 0, answers |-> EmptyMap, hints |-> EmptyHints,
     loadingHint |-> FALSE, results |-> NoResult, isSubmitting |-> FALSE,
     startTime |-> 0]
\* const [startTime] = useState(Date.now()): taken once, when the panel mounts
mountPanel == [FreshPanel EXCEPT !.startTime = now]

\* messages.findLast(m => m.quizResult?.quiz?.id === quiz?.id)?.quizResult
RECURSIVE findLastResult(_, _)
findLastResult(msgs, q) ==
    IF Len(msgs) = 0 THEN NoQuizResult
    ELSE IF msgs[Len(msgs)].quizResult.quiz.id = q.id
         THEN msgs[Len(msgs)].quizResult
         ELSE findLastResult(SubSeq(msgs, 1, Len(msgs) - 1), q)

currentQuizResult(msgs, q, rm) ==
    IF rm THEN findLastResult(msgs, q) ELSE NoQuizResult

\* reviewResults.results.forEach(r => savedAnswers[r.question_id] = r.user_answer)
savedAnswers(data) ==
    [k \in {String(data.results[i].question_id) : i \in DOMAIN data.results} |->
        LET i == CHOOSE j \in DOMAIN data.results :
                     String(data.results[j].question_id) = k
        IN data.results[i].user_answer]

\* variant: the effect leaves currentQuestion where it was
resetEffect_keepIndex(p, q, rm, rr) ==
    IF q.id = 0 THEN p
    ELSE IF rm /\ rr.data.quiz_id # 0
         THEN [p EXCEPT !.hints = EmptyHints,
                        !.results = rr.data, !.answers = savedAnswers(rr.data)]
         ELSE [p EXCEPT !.hints = EmptyHints,
                        !.results = NoResult, !.answers = EmptyMap]

\* the reset effect of WorkspacePanel, deps [quiz?.id, reviewMode, reviewResults]
resetEffect(p, q, rm, rr) ==
    IF q.id = 0 THEN p
    ELSE IF rm /\ rr.data.quiz_id # 0
         THEN [p EXCEPT !.currentQuestion = 0, !.hints = EmptyHints,
                        !.results = rr.data, !.answers = savedAnswers(rr.data)]
         ELSE [p EXCEPT !.currentQuestion = 0, !.hints = EmptyHints,
                        !.results = NoResult, !.answers = EmptyMap]

effectDeps(q, rm, msgs) == <<q.id, rm, currentQuizResult(msgs, q, rm)>>

\* App render: {isWorkspaceOpen && <WorkspacePanel .../>}.  Gives the panel
\* state after App went from (open1, q1, rm1, msgs1) to (open2, q2, rm2, msgs2).
renderPanel(p, open1, q1, rm1, msgs1, open2, q2, rm2, msgs2) ==
    IF ~open2 THEN FreshPanel
    ELSE IF ~open1
         THEN resetEffect(mountPanel, q2, rm2, currentQuizResult(msgs2, q2, rm2))
    ELSE IF effectDeps(q1, rm1, msgs1) # effectDeps(q2, rm2, msgs2)
         THEN resetEffect(p, q2, rm2, currentQuizResult(msgs2, q2, rm2))
    ELSE p

\* Requests whose continuation belongs to a panel instance that has been
\* unmounted: their setState calls no longer reach a mounted component.
orphan(reqs, open1, open2) ==
    IF open1 /\ ~open2 THEN {[r EXCEPT !.live = FALSE] : r \in reqs} ELSE reqs

\* the same for the hint requests, which are kept as a bag: two requests
\* of one panel instance's predecessors can be equal in every field
orphanBag(reqs, open1, open2) ==
    IF open1 /\ ~open2
    THEN LET S == BagToSet(reqs)
             dead(r) == [r EXCEPT !.live = FALSE]
         IN [t \in {dead(r) : r \in S} |->
                (IF t \in S THEN reqs[t] ELSE 0)
                + (IF [t EXCEPT !.live = TRUE] \in S
                   THEN reqs[[t EXCEPT !.live = TRUE]] ELSE 0)]
    ELSE reqs

\* chat messages that requests in flight will still append
pendingAppends ==
    (IF chatReq.phase \in {"sent", "ok", "fail"} THEN 1 ELSE 0)
    + Cardinality(submitReqs)
    + (IF uploadReq.phase \in {"sent", "ok", "fail"} THEN 1 ELSE 0)
roomFor(n) == Len(messages) + pendingAppends + n <= MaxMessages

(* ---------------------- the clock and the display ---------------------- *)
\* history: the moment a quiz is first displayed in the workspace, kept
\* when App goes on to render with isWorkspaceOpen = open2 and quiz = q2
firstShown(open2, q2) ==
    IF open2 /\ q2.id \in QuizIds /\ shownAt[q2.id] = -1
    THEN [shownAt EXCEPT ![q2.id] = now]
    ELSE shownAt

\* a step outside the upload flow: no upload state changes, the clock
\* does not move within a handler, the history follows the display
elsewhere ==
    /\ UNCHANGED <<uploadVars, now>>
    /\ shownAt' = firstShown(isWorkspaceOpen', quiz')

\* a second passes
Tick ==
    /\ now < MaxTime
    /\ now' = now + 1
    /\ UNCHANGED <<appVars, panel, sessionReq, chatReq, genReq, submitReqs,
                   hintReqs, srvVars, uploadVars, shownAt>>

(* ----------------------------- initSession ----------------------------- *)
\* variant: the handlers do not look at the session
noSession_never(sid) == FALSE

\* !sessionId, the early return of sendMessage, generateQuiz, submitQuiz
\* and uploadFile
noSession(sid) == sid = ""

IdleReq == [phase |-> "idle"]

\* response.ok: setSessionId(data.session_id); setMessages([welcome])
initSessionOk ==
    /\ sessionReq.phase = "ok"
    /\ sessionId' = "s1"
    /\ messages' = <<Message("assistant", "Welcome!")>>
    /\ sessionReq' = [phase |-> "done"]
    /\ UNCHANGED <<quiz, isWorkspaceOpen, isLoading, currentTopic, reviewMode,
                   panel, chatReq, genReq, submitReqs, hintReqs, srvVars>>
    /\ elsewhere

\* !response.ok: neither branch runs, nothing is set
initSessionNotOk ==
    /\ sessionReq.phase = "notok"
    /\ sessionReq' = [phase |-> "done"]
    /\ UNCHANGED <<appVars, panel, chatReq, genReq, submitReqs, hintReqs, srvVars>>
    /\ elsewhere

\* catch: setSessionId(uuidv4()); setMessages([offline welcome])
initSessionCatch ==
    /\ sessionReq.phase = "error"
    /\ sessionId' = "local"
    /\ messages' = <<Message("assistant", "Welcome! (offline)")>>
    /\ sessionReq' = [phase |-> "done"]
    /\ UNCHANGED <<quiz, isWorkspaceOpen, isLoading, currentTopic, reviewMode,
                   panel, chatReq, genReq, submitReqs, hintReqs, srvVars>>
    /\ elsewhere

initSession == initSessionOk \/ initSessionNotOk \/ initSessionCatch

\* POST chat/session answered: 2xx, non-2xx, or the fetch rejects
ServerSession ==
    /\ sessionReq.phase = "sent"
    /\ \E o \in {"ok", "notok", "error"} : sessionReq' = [phase |-> o]
    /\ UNCHANGED <<appVars, panel, chatReq, genReq, submitReqs, hintReqs, srvVars>>
    /\ elsewhere


(* ----------------------------- sendMessage ----------------------------- *)
\* a || b on strings: the empty string is falsy
Or(a, b) == IF a = "" THEN b ELSE a

IdleChat == [phase |-> "idle", session_id |-> "", message |-> "",
             content |-> "", quiz |-> NoQuiz]

\* ChatPanel.handleSubmit lets the call through only while !isLoading;
\* App.sendMessage returns at once on blank content or a missing session.
sendMessage(content) ==
    /\ ~isLoading
    /\ chatReq.phase = "idle"
    /\ IF Trim(content) = "" \/ noSession(sessionId)
       THEN UNCHANGED vars
       ELSE /\ roomFor(2)
            /\ messages' = Append(messages, Message("user", Trim(content)))
            /\ isLoading' = TRUE
            /\ chatReq' = [IdleChat EXCEPT !.phase = "sent",
                                           !.session_id = sessionId,
                                           !.message = Trim(content)]
            /\ panel' = renderPanel(panel, isWorkspaceOpen, quiz, reviewMode,
                                    messages, isWorkspaceOpen, quiz, reviewMode,
                                    messages')
            /\ UNCHANGED <<sessionId, quiz, isWorkspaceOpen, currentTopic,
                           reviewMode, sessionReq, genReq, submitReqs, hintReqs,
                           srvVars>>
    /\ elsewhere

\* variant: the message of the catch block carries no error flag
chatReply_unflagged(r) ==
    IF r.phase = "ok"
    THEN Message("assistant", Or(r.content, "No response received"))
    ELSE Message("assistant", "I'm having trouble connecting")

\* the assistant message appended for a settled request: aiMessage on
\* response.ok, the errorMessage of the catch block otherwise
chatReply(r) ==
    IF r.phase = "ok"
    THEN Message("assistant", Or(r.content, "No response received"))
    ELSE [Message("assistant", "I'm having trouble connecting")
             EXCEPT !.isError = TRUE]

\* continuation after the fetch: the reply (and a quiz, when the reply has
\* one) on success, an error message from the catch block, then finally
sendMessageThen ==
    /\ chatReq.phase \in {"ok", "fail"}
    /\ LET ok == chatReq.phase = "ok"
           hasQuiz == ok /\ chatReq.quiz.id # 0
           msg == chatReply(chatReq)
           q2 == IF hasQuiz THEN chatReq.quiz ELSE quiz
           open2 == IF hasQuiz THEN TRUE ELSE isWorkspaceOpen
       IN /\ messages' = Append(messages, msg)
          /\ quiz' = q2
          /\ isWorkspaceOpen' = open2
          /\ panel' = renderPanel(panel, isWorkspaceOpen, quiz, reviewMode,
                                  messages, open2, q2, reviewMode, messages')
    /\ isLoading' = FALSE
    /\ chatReq' = IdleChat
    /\ UNCHANGED <<sessionId, currentTopic, reviewMode, sessionReq, genReq,
                   submitReqs, hintReqs, srvVars>>
    /\ elsewhere

(* ----------------------------- generateQuiz ---------------------------- *)
NoBody == [session_id |-> "", topic |-> "", difficulty |-> "",
           num_questions |-> 0, context_based |-> FALSE]
NoQuizData == [quiz_id |-> 0, topic |-> "", questions |-> 0,
               total_questions |-> 0, withAnswers |-> FALSE]
\* topic, quizTopic and conversationContext are the locals of the call;
\* changedState is a history field: whether the synchronous part of the call
\* altered quiz, reviewMode, isWorkspaceOpen or currentTopic
IdleGen == [phase |-> "idle", topic |-> NoTopic, quizTopic |-> "",
            conversationContext |-> "", body |-> NoBody, data |-> NoQuizData,
            changedState |-> FALSE]

\* !topic
falsy(topic) == topic = NoTopic \/ topic = ""

\* variant: the flag follows the topic instead of its absence
generateBody_flag(topic, difficulty, numQuestions) ==
    [session_id |-> sessionId,
     topic |-> IF falsy(topic) THEN "conversation context" ELSE topic,
     difficulty |-> difficulty,
     num_questions |-> numQuestions,
     context_based |-> ~falsy(topic)]

\* JSON body of POST quiz/generate
generateBody(topic, difficulty, numQuestions) ==
    [session_id |-> sessionId,
     topic |-> IF falsy(topic) THEN "conversation context" ELSE topic,
     difficulty |-> difficulty,
     num_questions |-> numQuestions,
     context_based |-> falsy(topic)]

\* the placeholder message appended before the request
placeholder(topic, difficulty) ==
    [Message("assistant",
             IF falsy(topic) THEN "Generating a quiz based on what we've discussed..."
             ELSE "Generating a " \o difficulty \o " quiz on " \o topic \o "...")
        EXCEPT !.isSystem = TRUE]

\* the locals of a call made over the message list msgs, and its request
generateRequest(topic, difficulty, numQuestions, msgs) ==
    [IdleGen EXCEPT
        !.phase = "sent",
        !.topic = topic,
        !.quizTopic = IF falsy(topic)
                      THEN "topics discussed in our conversation"
                      ELSE topic,
        !.conversationContext = IF falsy(topic)
                                THEN conversationContext(msgs)
                                ELSE "",
        !.body = generateBody(topic, difficulty, numQuestions)]

\* the synchronous part of generateQuiz, up to the fetch.  The quick-action
\* button of ChatPanel is disabled while isLoading.
generateQuiz(topic, difficulty, numQuestions) ==
    /\ ~isLoading
    /\ genReq.phase = "idle"
    /\ IF noSession(sessionId)
       THEN UNCHANGED vars
       ELSE /\ roomFor(1)
            /\ isLoading' = TRUE
            /\ reviewMode' = FALSE
            /\ messages' = Append(messages, placeholder(topic, difficulty))
            /\ panel' = renderPanel(panel, isWorkspaceOpen, quiz, reviewMode,
                                    messages, isWorkspaceOpen, quiz, FALSE,
                                    messages')
            /\ UNCHANGED <<sessionId, quiz, isWorkspaceOpen, currentTopic,
                           sessionReq, chatReq, submitReqs, hintReqs, srvVars>>
            /\ genReq' = [generateRequest(topic, difficulty, numQuestions,
                                           messages) EXCEPT
                  !.changedState =
                      (<<quiz', reviewMode', isWorkspaceOpen', currentTopic'>>
                       # <<quiz, reviewMode, isWorkspaceOpen, currentTopic>>)]
    /\ elsewhere

\* variant: the last message is rewritten whatever it is
rewriteLast_any(msgs, content, isError) ==
    IF Len(msgs) > 0
    THEN [msgs EXCEPT ![Len(msgs)] =
             [@ EXCEPT !.content = content, !.isSystem = FALSE,
                       !.isError = IF isError THEN TRUE ELSE @]]
    ELSE msgs

\* setMessages(prev => ...): rewrite the last message when it is the placeholder
rewriteLast(msgs, content, isError) ==
    IF Len(msgs) > 0 /\ msgs[Len(msgs)].isSystem
    THEN [msgs EXCEPT ![Len(msgs)] =
             [@ EXCEPT !.content = content, !.isSystem = FALSE,
                       !.isError = IF isError THEN TRUE ELSE @]]
    ELSE msgs

\* continuation after the fetch: install the quiz on response.ok, else the
\* catch block; finally setIsLoading(false)
generateQuizThen ==
    /\ genReq.phase \in {"ok", "fail"}
    /\ IF genReq.phase = "ok"
       THEN LET d == genReq.data
                q2 == [id |-> d.quiz_id, topic |-> d.topic,
                       questions |-> d.questions,
                       totalQuestions |-> d.total_questions,
                       withAnswers |-> d.withAnswers]
            IN /\ quiz' = q2
               /\ isWorkspaceOpen' = TRUE
               /\ currentTopic' = Or(d.topic, genReq.quizTopic)
               /\ messages' = rewriteLast(messages, "I've prepared a quiz", FALSE)
               /\ panel' = renderPanel(panel, isWorkspaceOpen, quiz, reviewMode,
                                       messages, TRUE, q2, reviewMode, messages')
       ELSE /\ messages' = rewriteLast(messages,
                                       "I couldn't generate the quiz", TRUE)
            /\ panel' = renderPanel(panel, isWorkspaceOpen, quiz, reviewMode,
                                    messages, isWorkspaceOpen, quiz, reviewMode,
                                    messages')
            /\ UNCHANGED <<quiz, isWorkspaceOpen, currentTopic>>
    /\ isLoading' = FALSE
    /\ genReq' = IdleGen
    /\ UNCHANGED <<sessionId, reviewMode, sessionReq, chatReq, submitReqs,
                   hintReqs, srvVars>>
    /\ elsewhere


(* ------------------------- WorkspacePanel handlers --------------------- *)
\* const questions = quiz.questions || []; totalQuestions = questions.length
totalQuestions == quiz.questions
\* questions[currentQuestion] exists
hasQuestion == panel.currentQuestion < totalQuestions
\* variant: the position in the array taken for the id
questionId_index == panel.currentQuestion
\* question.id of questions[currentQuestion]
questionId == panel.currentQuestion + 1
\* the panel renders its quiz view
panelShown == isWorkspaceOpen /\ quiz.id # 0

getAnsweredCount(p) == Cardinality(DOMAIN p.answers)

NoEntry == [question_id |-> 0, user_answer |-> "", is_correct |-> FALSE,
            correct_answer |-> "", explanation |-> ""]

\* if (!results) return null;
\* results.results?.find(r => String(r.question_id) === String(qId))
getQuestionResult(p, qId) ==
    IF p.results.quiz_id = 0 THEN NoEntry
    ELSE LET hits == {i \in DOMAIN p.results.results :
                         String(p.results.results[i].question_id) = String(qId)}
         IN IF hits = {} THEN NoEntry
            ELSE p.results.results[CHOOSE i \in hits : \A j \in hits : i <= j]

handleSelectAnswer(answer) ==
    /\ panelShown /\ hasQuestion
    /\ panel.results.quiz_id = 0       \* disabled={!!results}; if (results) return
    /\ panel' = [panel EXCEPT !.answers = Put(@, String(questionId), answer)]
    /\ UNCHANGED <<appVars, sessionReq, chatReq, genReq, submitReqs, hintReqs,
                   srvVars>>
    /\ elsewhere

handlePrev ==
    /\ panelShown
    /\ panel.currentQuestion > 0
    /\ panel' = [panel EXCEPT !.currentQuestion = @ - 1]
    /\ UNCHANGED <<appVars, sessionReq, chatReq, genReq, submitReqs, hintReqs,
                   srvVars>>
    /\ elsewhere

handleNext ==
    /\ panelShown
    /\ panel.currentQuestion < totalQuestions - 1
    /\ panel' = [panel EXCEPT !.currentQuestion = @ + 1]
    /\ UNCHANGED <<appVars, sessionReq, chatReq, genReq, submitReqs, hintReqs,
                   srvVars>>
    /\ elsewhere

\* question dots: onClick={() => setCurrentQuestion(idx)}
selectDot(idx) ==
    /\ panelShown
    /\ idx \in 0..(totalQuestions - 1)
    /\ idx # panel.currentQuestion
    /\ panel' = [panel EXCEPT !.currentQuestion = idx]
    /\ UNCHANGED <<appVars, sessionReq, chatReq, genReq, submitReqs, hintReqs,
                   srvVars>>
    /\ elsewhere

(* -------------------------- handleHint / getHint ----------------------- *)
NoHint == [quiz_id |-> 0, question_id |-> 0, serial |-> 0]
freeSlot(reqs, max) == CHOOSE i \in 1..max : \A r \in reqs : r.id # i

\* hint button: rendered when a question is shown and !results,
\* disabled={loadingHint || hints[question.id]}
hintEnabled(p) ==
    /\ p.results.quiz_id = 0
    /\ ~p.loadingHint
    /\ String(questionId) \notin DOMAIN p.hints

\* handleHint up to the fetch inside getHint
handleHint ==
    /\ panelShown /\ hasQuestion
    /\ hintEnabled(panel)
    /\ BagCardinality(hintReqs) < MaxHintReqs
    /\ panel' = [panel EXCEPT !.loadingHint = TRUE]
    /\ hintReqs' = hintReqs (+) SetToBag(
          {[phase |-> "sent", live |-> TRUE, quiz_id |-> quiz.id, question_id |-> questionId,
            key |-> String(questionId), seen |-> 0, hint |-> NoHint]})
    /\ UNCHANGED <<appVars, sessionReq, chatReq, genReq, submitReqs, srvVars>>
    /\ elsewhere

\* variant: the hint is stored under the question shown when it arrives
hintKey_current(r, p) == String(p.currentQuestion + 1)

\* the key under which the continuation of handleHint stores the hint:
\* question.id of the question captured when the button was clicked
hintKey(r, p) == r.key

\* continuation: if (hint) setHints(...); setLoadingHint(false)
handleHintThen(r) ==
    /\ BagIn(r, hintReqs)
    /\ r.phase \in {"ok", "fail"}
    /\ hintReqs' = hintReqs (-) SetToBag({r})
    /\ panel' = IF ~r.live THEN panel
                ELSE IF r.phase = "ok"
                     THEN [panel EXCEPT !.hints = Put(@, hintKey(r, panel), r.hint),
                                        !.loadingHint = FALSE]
                     ELSE [panel EXCEPT !.loadingHint = FALSE]
    /\ UNCHANGED <<appVars, sessionReq, chatReq, genReq, submitReqs, srvVars>>
    /\ elsewhere

(* ------------------------ handleSubmit / submitQuiz -------------------- *)
\* submit button: rendered when !results && !reviewMode
submitShown(p, rm) == p.results.quiz_id = 0 /\ ~rm
\* variant: the button ignores the answered count
submitEnabled_noCount(p, total) == ~p.isSubmitting
\* disabled={getAnsweredCount() < totalQuestions || isSubmitting}
submitEnabled(p, total) == ~(getAnsweredCount(p) < total \/ p.isSubmitting)

\* handleSubmit up to the fetch inside submitQuiz
\* variant: the time since the displayed quiz was first displayed
timeTaken_sinceShown(p) == now - shownAt[quiz.id]

\* const timeTaken = Math.floor((Date.now() - startTime) / 1000)
timeTaken(p) == now - p.startTime

handleSubmit ==
    /\ panelShown
    /\ submitShown(panel, reviewMode)
    /\ submitEnabled(panel, totalQuestions)
    /\ ~noSession(sessionId)                \* submitQuiz: !quiz?.id || !sessionId
    /\ Cardinality(submitReqs) < MaxSubmits
    /\ roomFor(1)
    /\ panel' = [panel EXCEPT !.isSubmitting = TRUE]
    /\ submitReqs' = submitReqs \cup
          {[id |-> freeSlot(submitReqs, MaxSubmits), phase |-> "sent",
            live |-> TRUE, quiz |-> quiz, answers |-> panel.answers,
            timeTaken |-> timeTaken(panel), data |-> NoResult]}
    /\ UNCHANGED <<appVars, sessionReq, chatReq, genReq, hintReqs, srvVars>>
    /\ elsewhere

\* the chat message submitQuiz appends on response.ok
resultMessage(r) ==
    [Message("assistant", "Quiz completed!") EXCEPT
        !.quizResult = [data |-> r.data,
                        quiz |-> [id |-> r.quiz.id, topic |-> r.quiz.topic,
                                  questions |-> r.quiz.questions,
                                  withAnswers |-> r.quiz.withAnswers]]]

\* variant: the continuation without its finally block
submitSettled_stuck(p, r) ==
    IF r.phase = "ok" THEN [p EXCEPT !.results = r.data, !.isSubmitting = FALSE]
    ELSE p
\* continuation of handleSubmit in the panel that sent the request:
\* if (result) setResults(result), finally setIsSubmitting(false)
submitSettled(p, r) ==
    IF r.phase = "ok" THEN [p EXCEPT !.results = r.data, !.isSubmitting = FALSE]
    ELSE [p EXCEPT !.isSubmitting = FALSE]

\* continuation of submitQuiz (append the result message, return data or
\* null) followed by the continuation of handleSubmit (setResults, finally)
handleSubmitThen(r) ==
    /\ r \in submitReqs
    /\ r.phase \in {"ok", "fail"}
    /\ submitReqs' = submitReqs \ {r}
    /\ messages' = IF r.phase = "ok" THEN Append(messages, resultMessage(r))
                   ELSE messages
    /\ LET p1 == IF ~r.live THEN panel ELSE submitSettled(panel, r)
       IN panel' = renderPanel(p1, isWorkspaceOpen, quiz, reviewMode, messages,
                               isWorkspaceOpen, quiz, reviewMode, messages')
    /\ UNCHANGED <<sessionId, quiz, isWorkspaceOpen, isLoading, currentTopic,
                   reviewMode, sessionReq, chatReq, genReq, hintReqs, srvVars>>
    /\ elsewhere

(* --------------- expandQuiz, closeQuiz, toggleWorkspace ---------------- *)
\* "Review Quiz" on the i-th chat message
expandQuiz(i) ==
    /\ i \in 1..Len(messages)
    /\ messages[i].quizResult.quiz.id # 0
    /\ LET qr == messages[i].quizResult
           q2 == [id |-> qr.quiz.id, topic |-> qr.quiz.topic,
                  questions |-> qr.quiz.questions,
                  totalQuestions |-> qr.data.total_questions,
                  withAnswers |-> qr.quiz.withAnswers]
       IN /\ quiz' = q2
          /\ reviewMode' = TRUE
          /\ isWorkspaceOpen' = TRUE
          /\ panel' = renderPanel(panel, isWorkspaceOpen, quiz, reviewMode,
                                  messages, TRUE, q2, TRUE, messages)
    /\ UNCHANGED <<sessionId, messages, isLoading, currentTopic, sessionReq,
                   chatReq, genReq, submitReqs, hintReqs, srvVars>>
    /\ elsewhere

\* close button / exit button of the panel
closeQuiz ==
    /\ panelShown
    /\ quiz' = NoQuiz
    /\ isWorkspaceOpen' = FALSE
    /\ reviewMode' = FALSE
    /\ panel' = FreshPanel
    /\ submitReqs' = orphan(submitReqs, TRUE, FALSE)
    /\ hintReqs' = orphanBag(hintReqs, TRUE, FALSE)
    /\ UNCHANGED <<sessionId, messages, isLoading, currentTopic, sessionReq,
                   chatReq, genReq, srvVars>>
    /\ elsewhere

\* variant: the toggle is offered whether or not there is a quiz
toggleWorkspace_always ==
    /\ isWorkspaceOpen' = ~isWorkspaceOpen
    /\ panel' = renderPanel(panel, isWorkspaceOpen, quiz, reviewMode, messages,
                            ~isWorkspaceOpen, quiz, reviewMode, messages)
    /\ submitReqs' = orphan(submitReqs, isWorkspaceOpen, ~isWorkspaceOpen)
    /\ hintReqs' = orphanBag(hintReqs, isWorkspaceOpen, ~isWorkspaceOpen)
    /\ UNCHANGED <<sessionId, messages, quiz, isLoading, currentTopic,
                   reviewMode, sessionReq, chatReq, genReq, srvVars>>
    /\ elsewhere

\* Header: the toggle is rendered only when hasQuiz
toggleWorkspace ==
    /\ quiz.id # 0
    /\ isWorkspaceOpen' = ~isWorkspaceOpen
    /\ panel' = renderPanel(panel, isWorkspaceOpen, quiz, reviewMode, messages,
                            ~isWorkspaceOpen, quiz, reviewMode, messages)
    /\ submitReqs' = orphan(submitReqs, isWorkspaceOpen, ~isWorkspaceOpen)
    /\ hintReqs' = orphanBag(hintReqs, isWorkspaceOpen, ~isWorkspaceOpen)
    /\ UNCHANGED <<sessionId, messages, quiz, isLoading, currentTopic,
                   reviewMode, sessionReq, chatReq, genReq, srvVars>>
    /\ elsewhere


(* ------------------------ uploadFile / file input ---------------------- *)
\* the files a user can pick: the dialog's accept filter is a suggestion
Files == {[name |-> "graph.png", type |-> "image/png"],
          [name |-> "notes.pdf", type |-> "application/pdf"],
          [name |-> "notes.txt", type |-> "text/plain"]}

\* String.prototype.startsWith
startsWith(str, prefix) ==
    Len(str) >= Len(prefix) /\ SubSeq(str, 1, Len(prefix)) = prefix

isImage(file) == startsWith(file.type, "image/")
isPDF(file) == file.type = "application/pdf"

\* variant: every file type is accepted
supported_any(file) == TRUE

\* the negation of if (!isImage && !isPDF)
supported(file) == isImage(file) \/ isPDF(file)

IdleUpload == [phase |-> "idle", session_id |-> "", file_name |-> "",
               file_type |-> "", is_image |-> FALSE, context_id |-> 0]

\* the user message showing the upload
uploadMessage(file) ==
    [Message("user", "[Uploaded: " \o file.name \o "]") EXCEPT
        !.attachment = [type |-> IF isImage(file) THEN "image" ELSE "pdf",
                        name |-> file.name]]

\* ChatPanel.handleFileSelect with one file picked, up to the fetch inside
\* App.uploadFile.  The Upload Files button is disabled while
\* uploadingFile; when uploadFile returns at once, setUploadingFile(true)
\* and setUploadingFile(false) cancel out within the handler.
uploadFile(file) ==
    /\ ~uploadingFile
    /\ uploadReq.phase = "idle"
    /\ IF noSession(sessionId)
       THEN UNCHANGED vars
       ELSE IF ~supported(file)
       THEN /\ alertText' = "Please upload an image or PDF file."
            /\ UNCHANGED <<appVars, panel, sessionReq, chatReq, genReq,
                           submitReqs, hintReqs, srvVars, uploadReq,
                           fileContext, uploadingFile, now, shownAt>>
       ELSE /\ roomFor(2)
            /\ messages' = Append(messages, uploadMessage(file))
            /\ isLoading' = TRUE
            /\ uploadingFile' = TRUE
            /\ uploadReq' = [IdleUpload EXCEPT !.phase = "sent",
                                               !.session_id = sessionId,
                                               !.file_name = file.name,
                                               !.file_type = file.type,
                                               !.is_image = isImage(file)]
            /\ panel' = renderPanel(panel, isWorkspaceOpen, quiz, reviewMode,
                                    messages, isWorkspaceOpen, quiz, reviewMode,
                                    messages')
            /\ UNCHANGED <<sessionId, quiz, isWorkspaceOpen, currentTopic,
                           reviewMode, sessionReq, chatReq, genReq, submitReqs,
                           hintReqs, srvVars, fileContext, alertText, now,
                           shownAt>>

\* POST chat/upload answered with 2xx
ServerUpload ==
    /\ uploadReq.phase = "sent"
    /\ uploadReq' = [uploadReq EXCEPT !.phase = "ok",
                                      !.context_id = Len(fileContext) + 1]
    /\ UNCHANGED <<appVars, panel, sessionReq, chatReq, genReq, submitReqs,
                   hintReqs, srvVars, fileContext, uploadingFile, alertText,
                   now, shownAt>>

\* fileToBase64 rejects, the fetch rejects, or the response is not OK
UploadFails ==
    /\ uploadReq.phase = "sent"
    /\ uploadReq' = [uploadReq EXCEPT !.phase = "fail"]
    /\ UNCHANGED <<appVars, panel, sessionReq, chatReq, genReq, submitReqs,
                   hintReqs, srvVars, fileContext, uploadingFile, alertText,
                   now, shownAt>>

\* continuation after the fetch: the file context and the reply on
\* response.ok, the error message of the catch block otherwise, then
\* finally; handleFileSelect resumes with setUploadingFile(false)
uploadFileThen ==
    /\ uploadReq.phase \in {"ok", "fail"}
    /\ IF uploadReq.phase = "ok"
       THEN /\ fileContext' = Append(fileContext,
                   [id |-> uploadReq.context_id, name |-> uploadReq.file_name,
                    type |-> IF uploadReq.is_image THEN "image" ELSE "pdf"])
            /\ messages' = Append(messages,
                   Message("assistant", "I've analyzed the file you uploaded."))
       ELSE /\ messages' = Append(messages,
                   [Message("assistant", "I couldn't process the file")
                       EXCEPT !.isError = TRUE])
            /\ UNCHANGED fileContext
    /\ isLoading' = FALSE
    /\ uploadingFile' = FALSE
    /\ uploadReq' = IdleUpload
    /\ panel' = renderPanel(panel, isWorkspaceOpen, quiz, reviewMode,
                            messages, isWorkspaceOpen, quiz, reviewMode,
                            messages')
    /\ UNCHANGED <<sessionId, quiz, isWorkspaceOpen, currentTopic, reviewMode,
                   sessionReq, chatReq, genReq, submitReqs, hintReqs, srvVars,
                   alertText, now, shownAt>>

(* ------------------------------ backend -------------------------------- *)
\* a conversation turn as the backend stores it
Turn(role, content) == [role |-> role, content |-> content]

\* variant: the whole conversation, with no window and no budget
ServerSynthesizeTopic_whole(history) == Join(history, " ")

\* QuizGenerator, context-based mode: the topic description synthesized from
\* the most recent turns, a bounded window cut to a character budget
ServerSynthesizeTopic(history) ==
    SliceFirst(Join(SliceLast(history, RecentWindow), " "), ContextBudget)

\* QuizGenerator: the topic of the persisted QuizSession
ServerTopic(body, history) ==
    IF body.context_based THEN ServerSynthesizeTopic(history) ELSE body.topic

\* variant: the stored QuizSession is serialized whole
ServerQuizPayload_whole(id, sq) ==
    [quiz_id |-> id, topic |-> sq.topic, questions |-> sq.questions,
     total_questions |-> sq.questions, withAnswers |-> TRUE]

\* the response sent before grading: ids and prompts only, the
\* correct_answer / explanation fields stay on the server
ServerQuizPayload(id, sq) ==
    [quiz_id |-> id, topic |-> sq.topic, questions |-> sq.questions,
     total_questions |-> sq.questions, withAnswers |-> FALSE]

\* TrajectoryRecorder.  A Trajectory is kept by its action type; state,
\* reward and breakdown are fixed when it is recorded and play no part here.
Trajectory(action) == [action_type |-> action]
\* variant: the newest record is overwritten once the log is not empty
record_overwrite(log, action) ==
    IF log = <<>> THEN <<Trajectory(action)>>
    ELSE [log EXCEPT ![Len(log)] = Trajectory(action)]
\* record(session_id, state, action, reward, breakdown)
record(log, action) == Append(log, Trajectory(action))

\* a draft: the number of questions it parses into, and whether every one
\* of them passes the Question schema checks (a correct_answer that is one
\* of the options, no duplicate text)
NoDraft == [count |-> 0, sound |-> FALSE]
Drafts == [count : 0..MaxQuestions, sound : BOOLEAN]
IdleDraft == [stage |-> "IDLE", redrafts |-> 0, draft |-> NoDraft]

\* POST quiz/generate whose first draft validates, taken as one step:
\* READY with exactly num_questions questions
ServerGenerate ==
    /\ genReq.phase = "sent"
    /\ srvGen.stage = "IDLE"
    /\ Len(srvQuizzes) < MaxQuizzes
    /\ LET sq == [topic |-> ServerTopic(genReq.body, srvHistory),
                  questions |-> genReq.body.num_questions]
           id == Len(srvQuizzes) + 1
       IN /\ srvQuizzes' = Append(srvQuizzes, sq)
          /\ genReq' = [genReq EXCEPT !.phase = "ok",
                                      !.data = ServerQuizPayload(id, sq)]
    /\ srvTrajectories' = record(srvTrajectories, "quiz_generation")
    /\ UNCHANGED <<appVars, panel, sessionReq, chatReq, submitReqs, hintReqs,
                   srvResults, srvHints, srvHintsGenerated, srvHistory, srvGen>>
    /\ elsewhere

\* QuizGenerationError after the retry budget, or the fetch rejects
GenerateFails ==
    /\ genReq.phase = "sent"
    /\ srvGen.stage = "IDLE"
    /\ genReq' = [genReq EXCEPT !.phase = "fail"]
    /\ UNCHANGED <<appVars, panel, sessionReq, chatReq, submitReqs, hintReqs,
                   srvVars>>
    /\ elsewhere

\* QuizGenerator, step by step.  The request is accepted.
ServerCollect ==
    /\ genReq.phase = "sent"
    /\ srvGen.stage = "IDLE"
    /\ Len(srvQuizzes) < MaxQuizzes
    /\ srvGen' = [IdleDraft EXCEPT !.stage = "COLLECTING_CONTEXT"]
    /\ UNCHANGED <<appVars, panel, sessionReq, chatReq, genReq, submitReqs,
                   hintReqs, srvQuizzes, srvResults, srvHints,
                   srvHintsGenerated, srvHistory, srvTrajectories>>
    /\ elsewhere

\* the context is retrieved, drafting starts
ServerStartDraft ==
    /\ srvGen.stage = "COLLECTING_CONTEXT"
    /\ srvGen' = [srvGen EXCEPT !.stage = "DRAFTING"]
    /\ UNCHANGED <<appVars, panel, sessionReq, chatReq, genReq, submitReqs,
                   hintReqs, srvQuizzes, srvResults, srvHints,
                   srvHintsGenerated, srvHistory, srvTrajectories>>
    /\ elsewhere

\* the generation backend returns a draft, usable or not (a call that times
\* out counts as an unusable draft)
ServerDraft ==
    /\ srvGen.stage \in {"DRAFTING", "RETRY_DRAFTING"}
    /\ \E d \in Drafts :
          srvGen' = [srvGen EXCEPT !.stage = "VALIDATING", !.draft = d]
    /\ UNCHANGED <<appVars, panel, sessionReq, chatReq, genReq, submitReqs,
                   hintReqs, srvQuizzes, srvResults, srvHints,
                   srvHintsGenerated, srvHistory, srvTrajectories>>
    /\ elsewhere

\* variant: a rejected draft is always drafted again
ServerVerdict_unbounded(draft, requested, redrafts) ==
    IF draft.count = requested /\ draft.sound THEN "READY"
    ELSE "RETRY_DRAFTING"
\* variant: the question count of the draft is not compared
ServerVerdict_anyCount(draft, requested, redrafts) ==
    IF draft.sound THEN "READY"
    ELSE IF redrafts < RetryBudget THEN "RETRY_DRAFTING"
    ELSE "FAILED"
\* Validate: reject and re-draft if the question count differs from the
\* requested count or a question fails the schema; FAILED once the retry
\* budget is exhausted
ServerVerdict(draft, requested, redrafts) ==
    IF draft.count = requested /\ draft.sound THEN "READY"
    ELSE IF redrafts < RetryBudget THEN "RETRY_DRAFTING"
    ELSE "FAILED"

ServerValidate ==
    /\ srvGen.stage = "VALIDATING"
    /\ srvGen.redrafts <= RetryBudget
    /\ LET v == ServerVerdict(srvGen.draft, genReq.body.num_questions,
                              srvGen.redrafts)
       IN srvGen' = [srvGen EXCEPT
                        !.stage = v,
                        !.redrafts = IF v = "RETRY_DRAFTING" THEN @ + 1 ELSE @]
    /\ UNCHANGED <<appVars, panel, sessionReq, chatReq, genReq, submitReqs,
                   hintReqs, srvQuizzes, srvResults, srvHints,
                   srvHintsGenerated, srvHistory, srvTrajectories>>
    /\ elsewhere

\* READY: the validated draft becomes the QuizSession and is returned
ServerReady ==
    /\ srvGen.stage = "READY"
    /\ LET sq == [topic |-> ServerTopic(genReq.body, srvHistory),
                  questions |-> srvGen.draft.count]
           id == Len(srvQuizzes) + 1
       IN /\ srvQuizzes' = Append(srvQuizzes, sq)
          /\ genReq' = [genReq EXCEPT !.phase = "ok",
                                      !.data = ServerQuizPayload(id, sq)]
    /\ srvGen' = IdleDraft
    /\ srvTrajectories' = record(srvTrajectories, "quiz_generation")
    /\ UNCHANGED <<appVars, panel, sessionReq, chatReq, submitReqs, hintReqs,
                   srvResults, srvHints, srvHintsGenerated, srvHistory>>
    /\ elsewhere

\* FAILED: QuizGenerationError is returned, nothing is stored
ServerFailed ==
    /\ srvGen.stage = "FAILED"
    /\ genReq' = [genReq EXCEPT !.phase = "fail"]
    /\ srvGen' = IdleDraft
    /\ UNCHANGED <<appVars, panel, sessionReq, chatReq, submitReqs, hintReqs,
                   srvQuizzes, srvResults, srvHints, srvHintsGenerated,
                   srvHistory, srvTrajectories>>
    /\ elsewhere

\* POST chat/message: a reply, with a freshly generated quiz attached or
\* not; the user turn and the reply are stored with the session
ServerChat ==
    /\ chatReq.phase = "sent"
    /\ \/ /\ chatReq' = [chatReq EXCEPT !.phase = "ok", !.content = "A reply."]
          /\ UNCHANGED srvQuizzes
       \/ /\ Len(srvQuizzes) < MaxQuizzes
          /\ \E n \in 1..MaxQuestions :
                LET sq == [topic |-> "Groups", questions |-> n]
                    d == ServerQuizPayload(Len(srvQuizzes) + 1, sq)
                IN /\ srvQuizzes' = Append(srvQuizzes, sq)
                   /\ chatReq' = [chatReq EXCEPT
                         !.phase = "ok", !.content = "Here is a quiz.",
                         !.quiz = [id |-> d.quiz_id, topic |-> d.topic,
                                   questions |-> d.questions,
                                   totalQuestions |-> d.total_questions,
                                   withAnswers |-> d.withAnswers]]
    /\ srvHistory' = srvHistory \o <<Turn("user", chatReq.message),
                                     Turn("assistant", chatReq'.content)>>
    /\ srvTrajectories' = record(srvTrajectories, "response")
    /\ UNCHANGED <<appVars, panel, sessionReq, genReq, submitReqs, hintReqs,
                   srvResults, srvHints, srvHintsGenerated, srvGen>>
    /\ elsewhere

\* the request fails before anything is stored, or the fetch rejects
ChatFails ==
    /\ chatReq.phase = "sent"
    /\ chatReq' = [chatReq EXCEPT !.phase = "fail"]
    /\ UNCHANGED <<appVars, panel, sessionReq, genReq, submitReqs, hintReqs,
                   srvVars>>
    /\ elsewhere

\* the answer key of a QuizSession, fixed at creation
ServerCorrectAnswer(q, i) == IF (q + i) % 2 = 0 THEN "A" ELSE "B"
ServerExplanation(q, i) == "why " \o String(q) \o "." \o String(i)

\* variant: the rounding term is added but the quotient is not halved
ServerPercentage_unhalved(c, t) == IF t = 0 THEN 0 ELSE (200 * c + t) \div t
\* percentage = round(100 * correct_count / total_questions)
ServerPercentage(c, t) == IF t = 0 THEN 0 ELSE (200 * c + t) \div (2 * t)

\* GradingEngine.grade: one entry per question of the quiz, a missing
\* answer is graded incorrect
ServerGrade(q, n, answers) ==
    LET entry(i) ==
            LET ua == IF String(i) \in DOMAIN answers THEN answers[String(i)]
                      ELSE ""
            IN [question_id |-> i, user_answer |-> ua,
                is_correct |-> (ua = ServerCorrectAnswer(q, i)),
                correct_answer |-> ServerCorrectAnswer(q, i),
                explanation |-> ServerExplanation(q, i)]
        c == Cardinality({i \in 1..n : entry(i).is_correct})
    IN [quiz_id |-> q, results |-> [i \in 1..n |-> entry(i)],
        correct_count |-> c, total_questions |-> n,
        percentage |-> ServerPercentage(c, n)]

\* variant: an empty quiz is gradable
ServerAccepts_empty(q, n, answers, graded) ==
    /\ ~graded
    /\ DOMAIN answers \subseteq {String(i) : i \in 1..n}

\* whether a submit for quiz q with these answers is accepted: the quiz is
\* not graded yet (duplicate), has questions, and every answered id is one
\* of its questions (InvalidSubmissionError)
ServerAccepts(q, n, answers, graded) ==
    /\ ~graded
    /\ n > 0
    /\ DOMAIN answers \subseteq {String(i) : i \in 1..n}

\* POST quiz/<id>/submit, handled one at a time per session
ServerSubmit(r) ==
    /\ r \in submitReqs
    /\ r.phase = "sent"
    /\ LET q == r.quiz.id
           n == srvQuizzes[q].questions
       IN IF ServerAccepts(q, n, r.answers, srvResults[q].quiz_id # 0)
          THEN /\ srvResults' = [srvResults EXCEPT ![q] = ServerGrade(q, n, r.answers)]
               /\ submitReqs' = (submitReqs \ {r}) \cup
                     {[r EXCEPT !.phase = "ok", !.data = srvResults'[q]]}
               /\ srvTrajectories' = record(srvTrajectories, "grading")
          ELSE /\ submitReqs' = (submitReqs \ {r}) \cup
                     {[r EXCEPT !.phase = "fail"]}
               /\ UNCHANGED <<srvResults, srvTrajectories>>
    /\ UNCHANGED <<appVars, panel, sessionReq, chatReq, genReq, hintReqs,
                   srvQuizzes, srvHints, srvHintsGenerated, srvHistory, srvGen>>
    /\ elsewhere

SubmitFails(r) ==
    /\ r \in submitReqs
    /\ r.phase = "sent"
    /\ submitReqs' = (submitReqs \ {r}) \cup {[r EXCEPT !.phase = "fail"]}
    /\ UNCHANGED <<appVars, panel, sessionReq, chatReq, genReq, hintReqs,
                   srvVars>>
    /\ elsewhere

\* HintArbiter, first half: look the pair up in the cache
ServerHintLookup(r) ==
    /\ BagIn(r, hintReqs)
    /\ r.phase = "sent"
    /\ r.question_id \in 1..srvQuizzes[r.quiz_id].questions
    /\ hintReqs' = (hintReqs (-) SetToBag({r})) (+) SetToBag(
          {[r EXCEPT !.phase = "lookup",
                     !.seen = srvHints[r.quiz_id][r.question_id]]})
    /\ UNCHANGED <<appVars, panel, sessionReq, chatReq, genReq, submitReqs,
                   srvVars>>
    /\ elsewhere

\* variant: the write is decided by what the lookup saw
ServerHintCas_blind(cur, seen, fresh) == IF seen = 0 THEN fresh ELSE cur

\* the compare-and-set on the cache entry: a fresh hint is written only
\* when the entry is still empty, otherwise the cached value stands.  A
\* hint text is identified by its pair and its generation number, fresh
\* being the number of the hint that would be generated now
ServerHintCas(cur, seen, fresh) == IF cur = 0 THEN fresh ELSE cur

\* HintArbiter, second half: generate on a miss, compare-and-set, reply
\* with the cached record.  The Trajectory of a hint is recorded when the
\* hint is generated; replaying the cached record is no new tutor action
ServerHintReply(r) ==
    /\ BagIn(r, hintReqs)
    /\ r.phase = "lookup"
    /\ LET cur == srvHints[r.quiz_id][r.question_id]
           fresh == srvHintsGenerated[r.quiz_id][r.question_id] + 1
           new == ServerHintCas(cur, r.seen, fresh)
       IN /\ srvHints' = [srvHints EXCEPT ![r.quiz_id][r.question_id] = new]
          /\ srvHintsGenerated' =
                IF new = cur THEN srvHintsGenerated
                ELSE [srvHintsGenerated EXCEPT ![r.quiz_id][r.question_id] = fresh]
          /\ hintReqs' = (hintReqs (-) SetToBag({r})) (+) SetToBag(
                {[r EXCEPT !.phase = "ok",
                           !.hint = [quiz_id |-> r.quiz_id,
                                     question_id |-> r.question_id,
                                     serial |-> new]]})
          /\ srvTrajectories' = IF new = cur THEN srvTrajectories
                                ELSE record(srvTrajectories, "hint")
    /\ UNCHANGED <<appVars, panel, sessionReq, chatReq, genReq, submitReqs,
                   srvQuizzes, srvResults, srvHistory, srvGen>>
    /\ elsewhere

\* UnknownQuestionError, a non-OK reply, or the fetch rejects
HintFails(r) ==
    /\ BagIn(r, hintReqs)
    /\ r.phase = "sent"
    /\ hintReqs' = (hintReqs (-) SetToBag({r})) (+)
                       SetToBag({[r EXCEPT !.phase = "fail"]})
    /\ UNCHANGED <<appVars, panel, sessionReq, chatReq, genReq, submitReqs,
                   srvVars>>
    /\ elsewhere

(* ---------------------------- specification ---------------------------- *)
Init ==
    /\ sessionId = ""
    /\ messages = <<>>
    /\ quiz = NoQuiz
    /\ isWorkspaceOpen = FALSE
    /\ isLoading = FALSE
    /\ currentTopic = "Mathematics"
    /\ reviewMode = FALSE
    /\ panel = FreshPanel
    /\ sessionReq = [phase |-> "sent"]      \* useEffect(() => initSession(), [])
    /\ chatReq = IdleChat
    /\ genReq = IdleGen
    /\ submitReqs = {}
    /\ hintReqs = EmptyBag
    /\ srvQuizzes = <<>>
    /\ srvResults = [q \in QuizIds |-> NoResult]
    /\ srvHints = [q \in QuizIds |-> [i \in 1..MaxQuestions |-> 0]]
    /\ srvHintsGenerated = [q \in QuizIds |-> [i \in 1..MaxQuestions |-> 0]]
    /\ srvHistory = <<>>
    /\ srvGen = IdleDraft
    /\ srvTrajectories = <<>>
    /\ uploadReq = IdleUpload
    /\ fileContext = <<>>
    /\ uploadingFile = FALSE
    /\ alertText = ""
    /\ now = 0
    /\ shownAt = [q \in QuizIds |-> -1]

Next ==
    \/ ServerSession
    \/ initSession
    \/ \E c \in UserInputs : sendMessage(c)
    \/ ServerChat
    \/ ChatFails
    \/ sendMessageThen
    \/ \E t \in Topics, d \in Difficulties, n \in 0..MaxQuestions :
          generateQuiz(t, d, n)
    \/ ServerGenerate
    \/ GenerateFails
    \/ ServerCollect
    \/ ServerStartDraft
    \/ ServerDraft
    \/ ServerValidate
    \/ ServerReady
    \/ ServerFailed
    \/ generateQuizThen
    \/ \E a \in AnswerChoices : handleSelectAnswer(a)
    \/ handlePrev
    \/ handleNext
    \/ \E i \in 0..(MaxQuestions - 1) : selectDot(i)
    \/ handleHint
    \/ \E r \in BagToSet(hintReqs) : ServerHintLookup(r)
    \/ \E r \in BagToSet(hintReqs) : ServerHintReply(r)
    \/ \E r \in BagToSet(hintReqs) : HintFails(r)
    \/ \E r \in BagToSet(hintReqs) : handleHintThen(r)
    \/ handleSubmit
    \/ \E r \in submitReqs : ServerSubmit(r)
    \/ \E r \in submitReqs : SubmitFails(r)
    \/ \E r \in submitReqs : handleSubmitThen(r)
    \/ \E i \in 1..MaxMessages : expandQuiz(i)
    \/ closeQuiz
    \/ toggleWorkspace
    \/ \E f \in Files : uploadFile(f)
    \/ ServerUpload
    \/ UploadFails
    \/ uploadFileThen
    \/ Tick

Spec == Init /\ [][Next]_vars


\* ChatPanel.handleQuickAction('generate-quiz'): onGenerateQuiz() with the
\* defaults topic = null, difficulty = 'medium', numQuestions = 5; the
\* question count is scaled down to MaxQuestions
handleQuickAction == generateQuiz(NoTopic, "medium", MaxQuestions)

\* the quiz flow as the user interface drives it
NextQuiz ==
    \/ ServerSession
    \/ initSession
    \/ \E c \in UserInputs : sendMessage(c)
    \/ ServerChat
    \/ ChatFails
    \/ sendMessageThen
    \/ handleQuickAction
    \/ ServerGenerate
    \/ GenerateFails
    \/ generateQuizThen
    \/ \E a \in AnswerChoices : handleSelectAnswer(a)
    \/ handlePrev
    \/ handleNext
    \/ \E i \in 0..(MaxQuestions - 1) : selectDot(i)
    \/ handleSubmit
    \/ \E r \in submitReqs : ServerSubmit(r)
    \/ \E r \in submitReqs : SubmitFails(r)
    \/ \E r \in submitReqs : handleSubmitThen(r)
    \/ \E i \in 1..MaxMessages : expandQuiz(i)
    \/ closeQuiz
    \/ toggleWorkspace

SpecQuiz == Init /\ [][NextQuiz]_vars


\* generateQuiz called with every argument the function accepts: explicit
\* topics, both difficulties, any question count from 0
NextGen ==
    \/ ServerSession
    \/ initSession
    \/ \E c \in UserInputs : sendMessage(c)
    \/ ServerChat
    \/ ChatFails
    \/ sendMessageThen
    \/ \E t \in Topics, d \in Difficulties, n \in 0..MaxQuestions :
          generateQuiz(t, d, n)
    \/ ServerGenerate
    \/ GenerateFails
    \/ generateQuizThen
    \/ closeQuiz
    \/ toggleWorkspace

SpecGen == Init /\ [][NextGen]_vars

\* the submit flow over quizzes of any size a caller can request, the
\* empty quiz included
NextSizes ==
    \/ ServerSession
    \/ initSession
    \/ \E n \in 0..MaxQuestions : generateQuiz(NoTopic, "medium", n)
    \/ ServerGenerate
    \/ GenerateFails
    \/ generateQuizThen
    \/ \E a \in AnswerChoices : handleSelectAnswer(a)
    \/ handlePrev
    \/ handleNext
    \/ \E i \in 0..(MaxQuestions - 1) : selectDot(i)
    \/ handleSubmit
    \/ \E r \in submitReqs : ServerSubmit(r)
    \/ \E r \in submitReqs : SubmitFails(r)
    \/ \E r \in submitReqs : handleSubmitThen(r)
    \/ closeQuiz
    \/ toggleWorkspace

SpecSizes == Init /\ [][NextSizes]_vars

(* --------------- topic synthesis over longer conversations ------------- *)
\* the backend's record of k exchanges, every user turn answered by a reply
HistoryOf(us, k) ==
    [i \in 1..(2 * k) |->
        IF i % 2 = 1 THEN Turn("user", us[(i + 1) \div 2])
        ELSE Turn("assistant", "A reply.")]

\* the trajectory log after the same exchanges: one response each
TrajectoriesOf(k) == [i \in 1..k |-> Trajectory("response")]

\* the client's chat log after the same exchanges
MessagesOf(us, k) ==
    <<Message("assistant", "Welcome!")>> \o
    [i \in 1..(2 * k) |->
        IF i % 2 = 1 THEN Message("user", us[(i + 1) \div 2])
        ELSE Message("assistant", "A reply.")]

\* the session has held up to MaxTurns exchanges and the user has just
\* clicked Generate Quiz: the placeholder is appended, the request is sent
InitContext ==
    \E k \in 0..MaxTurns : \E us \in [1..k -> ContextInputs] :
        /\ sessionId = "s1"
        /\ messages = Append(MessagesOf(us, k), placeholder(NoTopic, "medium"))
        /\ quiz = NoQuiz
        /\ isWorkspaceOpen = FALSE
        /\ isLoading = TRUE
        /\ currentTopic = "Mathematics"
        /\ reviewMode = FALSE
        /\ panel = FreshPanel
        /\ sessionReq = [phase |-> "done"]
        /\ chatReq = IdleChat
        /\ genReq = generateRequest(NoTopic, "medium", MaxQuestions,
                                    MessagesOf(us, k))
        /\ submitReqs = {}
        /\ hintReqs = EmptyBag
        /\ srvQuizzes = <<>>
        /\ srvResults = [q \in QuizIds |-> NoResult]
        /\ srvHints = [q \in QuizIds |-> [i \in 1..MaxQuestions |-> 0]]
        /\ srvHintsGenerated = [q \in QuizIds |-> [i \in 1..MaxQuestions |-> 0]]
        /\ srvHistory = HistoryOf(us, k)
        /\ srvGen = IdleDraft
        /\ srvTrajectories = TrajectoriesOf(k)
        /\ uploadReq = IdleUpload
        /\ fileContext = <<>>
        /\ uploadingFile = FALSE
        /\ alertText = ""
        /\ now = 0
        /\ shownAt = [q \in QuizIds |-> -1]

NextContext ==
    \/ ServerGenerate
    \/ GenerateFails
    \/ generateQuizThen
    \/ toggleWorkspace

SpecContext == InitContext /\ [][NextContext]_vars

(* ======================= properties of the quiz flow =================== *)
ResultMessages(q) ==
    {i \in 1..Len(messages) : messages[i].quizResult.quiz.id = q}
SubmitsInFlight(q) == {r \in submitReqs : r.quiz.id = q}
Graded(q) == srvResults[q].quiz_id # 0

\* C1: for every quiz id at most one submit request is in flight at a time
\* and at most one submission of it yields an accepted SubmissionResult.
C1_SingleSubmit ==
    \A q \in QuizIds :
        /\ Cardinality(SubmitsInFlight(q)) <= 1
        /\ Cardinality({r \in SubmitsInFlight(q) : r.phase = "ok"})
             + Cardinality(ResultMessages(q)) <= 1

\* C2: once a quiz has been graded and its result delivered, the result
\* attached to the chat message is the original one, and a panel that
\* displays this quiz holds that same result (so no submit is offered).
C2_GradedStaysGraded ==
    \A i \in 1..Len(messages) :
        LET qr == messages[i].quizResult IN
        qr.quiz.id # 0 =>
            /\ qr.data = srvResults[qr.quiz.id]
            /\ (panelShown /\ quiz.id = qr.quiz.id) => panel.results = qr.data

\* C3: every submit request carries an answer for exactly the question ids
\* of the quiz it is sent for.
C3_CompleteAnswers ==
    \A r \in submitReqs : DOMAIN r.answers = KeysOf(r.quiz)

C3_Witness ==
    \E r \in submitReqs : r.quiz.questions = MaxQuestions /\ r.phase = "sent"

\* C4: a quiz with zero questions never gets a SubmissionResult: the
\* backend stores none, no submit response is OK, no result message exists.
C4_ZeroQuestionsRejected ==
    \A q \in 1..Len(srvQuizzes) :
        srvQuizzes[q].questions = 0 =>
            /\ ~Graded(q)
            /\ ResultMessages(q) = {}
            /\ \A r \in SubmitsInFlight(q) : r.phase # "ok"

C4_Witness ==
    \E r \in submitReqs : r.quiz.questions = 0 /\ r.phase = "fail"

\* the result entries the client holds: in the panel, in chat messages and
\* in submit responses not yet consumed
HeldEntries ==
    LET datas == {panel.results}
                 \cup {messages[i].quizResult.data : i \in 1..Len(messages)}
                 \cup {r.data : r \in submitReqs}
    IN UNION {{d.results[i] : i \in DOMAIN d.results} : d \in datas}
\* the quiz objects the client holds
HeldQuizzes ==
    {[id |-> quiz.id, withAnswers |-> quiz.withAnswers],
     [id |-> chatReq.quiz.id, withAnswers |-> chatReq.quiz.withAnswers],
     [id |-> genReq.data.quiz_id, withAnswers |-> genReq.data.withAnswers]}

\* C5: while a quiz has not been graded, the client holds neither its
\* answer key in the quiz object nor any result entry carrying the
\* explanation of one of its questions, and the panel shows none.
C5_AnswersWithheld ==
    \A q \in 1..Len(srvQuizzes) :
        ~Graded(q) =>
            /\ \A h \in HeldQuizzes : h.id = q => ~h.withAnswers
            /\ \A i \in 1..srvQuizzes[q].questions :
                  /\ \A e \in HeldEntries : e.explanation # ServerExplanation(q, i)
                  /\ (panelShown /\ quiz.id = q) =>
                        getQuestionResult(panel, i).explanation
                            # ServerExplanation(q, i)

\* an ungraded quiz is on display, fully answered, while the result of
\* another, graded quiz is in the chat
C5_Witness ==
    /\ panelShown /\ quiz.questions > 0
    /\ ~Graded(quiz.id)
    /\ getAnsweredCount(panel) = totalQuestions
    /\ \E q \in QuizIds : ResultMessages(q) # {}

C9_GenerateBody ==
    genReq.phase # "idle" =>
        /\ genReq.body.session_id = sessionId /\ sessionId # ""
        /\ genReq.body.difficulty \in Difficulties
        /\ genReq.body.num_questions \in 0..MaxQuestions
        /\ genReq.body.context_based \in BOOLEAN
        /\ genReq.body.context_based <=> (genReq.topic = NoTopic)

C9_Witness ==
    /\ genReq.phase = "ok"
    /\ genReq.topic = NoTopic
    /\ genReq.body.context_based

\* C10: a generateQuiz call that fails shows a failure message and leaves
\* quiz, reviewMode, isWorkspaceOpen and currentTopic as they were before
\* the call.
C10_FailedGenerationUnchanged ==
    [][(genReq.phase = "fail" /\ genReq'.phase = "idle") =>
          /\ ~genReq.changedState
          /\ UNCHANGED <<quiz, reviewMode, isWorkspaceOpen, currentTopic>>
          /\ \E i \in 1..Len(messages') : messages'[i].isError]_vars


(* ========================= properties of hints ========================= *)
\* The hint flow on its own: quizzes are generated, the user navigates,
\* asks for hints and hides, shows or closes the workspace.
NextHint ==
    \/ ServerSession
    \/ initSession
    \/ handleQuickAction
    \/ ServerGenerate
    \/ generateQuizThen
    \/ handlePrev
    \/ handleNext
    \/ \E i \in 0..(MaxQuestions - 1) : selectDot(i)
    \/ handleHint
    \/ \E r \in BagToSet(hintReqs) : ServerHintLookup(r)
    \/ \E r \in BagToSet(hintReqs) : ServerHintReply(r)
    \/ \E r \in BagToSet(hintReqs) : HintFails(r)
    \/ \E r \in BagToSet(hintReqs) : handleHintThen(r)
    \/ toggleWorkspace

SpecHint == Init /\ [][NextHint]_vars

\* C6: a hint returned for a (quiz, question) pair is the text cached for
\* that pair, and the panel shows it under that question and no other text,
\* however the user navigates, hides and shows the panel or asks again.
C6_HintsStable ==
    /\ \A r \in BagToSet(hintReqs) :
          r.phase = "ok" => r.hint.serial = srvHints[r.quiz_id][r.question_id]
    /\ \A k \in DOMAIN panel.hints :
          LET h == panel.hints[k] IN
          h.quiz_id = quiz.id =>
              /\ k = String(h.question_id)
              /\ h.serial = srvHints[h.quiz_id][h.question_id]

\* after a hide/show the shown panel asked again for a pair whose hint an
\* earlier request had generated, and was answered with that hint
C6_Witness ==
    /\ panelShown
    /\ \E r \in BagToSet(hintReqs) :
          /\ r.phase = "ok" /\ r.live /\ r.seen # 0
          /\ srvHintsGenerated[r.quiz_id][r.question_id] = 1
          /\ \E o \in BagToSet(hintReqs) :
                ~o.live /\ o.phase = "ok" /\ o.hint = r.hint

\* C7: at most one hint is generated per pair, and concurrent requests for
\* one pair all receive the same, cached hint.
C7_OneHintPerPair ==
    /\ \A q \in QuizIds : \A i \in 1..MaxQuestions : srvHintsGenerated[q][i] <= 1
    /\ \A r1, r2 \in BagToSet(hintReqs) :
          (/\ r1.phase = "ok" /\ r2.phase = "ok"
           /\ r1.quiz_id = r2.quiz_id /\ r1.question_id = r2.question_id)
          => r1.hint = r2.hint

\* two first requests for one pair both found the cache empty and both
\* have been answered
C7_Witness ==
    \E r1, r2 \in BagToSet(hintReqs) :
        /\ r1.live /\ ~r2.live
        /\ r1.phase = "ok" /\ r2.phase = "ok"
        /\ r1.seen = 0 /\ r2.seen = 0
        /\ r1.quiz_id = r2.quiz_id /\ r1.question_id = r2.question_id

(* ------------------------ reviewing graded quizzes --------------------- *)
\* quizzes generated, answered, submitted and reviewed from the chat, with
\* every request answered
NextReview ==
    \/ ServerSession
    \/ initSession
    \/ handleQuickAction
    \/ ServerGenerate
    \/ generateQuizThen
    \/ \E a \in AnswerChoices : handleSelectAnswer(a)
    \/ handleNext
    \/ handleSubmit
    \/ \E r \in submitReqs : ServerSubmit(r)
    \/ \E r \in submitReqs : handleSubmitThen(r)
    \/ \E i \in 1..MaxMessages : expandQuiz(i)
    \/ toggleWorkspace

SpecReview == Init /\ [][NextReview]_vars

\* the i-th chat message is a result message of the displayed quiz
ReviewOf(i) ==
    /\ i \in 1..Len(messages)
    /\ messages[i].quizResult.quiz.id # 0
    /\ messages[i].quizResult.quiz.id = quiz.id

\* C11 (first half): the quizResult attached to a chat message never
\* changes once the message exists, and no message is ever removed.
C11_ResultImmutable ==
    [][\A i \in 1..Len(messages) :
          /\ i <= Len(messages')
          /\ messages'[i].quizResult = messages[i].quizResult]_vars

\* C11: while the workspace reviews a quiz, the panel holds exactly the
\* per-question results, the score and the user answers of the chat message
\* that carries the quiz's result.
C11_ReviewShowsResult ==
    \A i \in 1..Len(messages) :
        (panelShown /\ reviewMode /\ ReviewOf(i)) =>
            /\ panel.results = messages[i].quizResult.data
            /\ panel.answers = savedAnswers(messages[i].quizResult.data)

(* ------------------------- rejected submissions ------------------------ *)
\* C12: when the continuation of a failed submit request runs, no chat
\* message is appended; in the panel that sent it only isSubmitting changes,
\* to false, so answers and results stay as they were, and outside review
\* mode the results are still null.  A request whose panel was unmounted
\* changes nothing at all.
C12_RejectedSubmission ==
    [][\A r \in submitReqs :
          (r.phase = "fail" /\ submitReqs' = submitReqs \ {r}) =>
              /\ messages' = messages
              /\ r.live => (panel' = [panel EXCEPT !.isSubmitting = FALSE])
              /\ (r.live /\ ~reviewMode) => (panel'.results = NoResult)
              /\ ~r.live => (panel' = panel)]_vars

\* a failed response is about to reach the panel that is still submitting
C12_Witness ==
    \E r \in submitReqs :
        /\ r.phase = "fail" /\ r.live
        /\ panelShown /\ ~reviewMode /\ quiz.id = r.quiz.id
        /\ panel.isSubmitting /\ panel.answers = r.answers

(* ------------------------ the generation state machine ----------------- *)
\* generation requests of every size, drafted and validated step by step
NextDraft ==
    \/ ServerSession
    \/ initSession
    \/ \E n \in 0..MaxQuestions : generateQuiz(NoTopic, "medium", n)
    \/ ServerCollect
    \/ ServerStartDraft
    \/ ServerDraft
    \/ ServerValidate
    \/ ServerReady
    \/ ServerFailed
    \/ generateQuizThen
    \/ toggleWorkspace

\* every backend step is a blocking call bounded by a timeout, so a step
\* that can be taken is taken
SpecDraft ==
    /\ Init
    /\ [][NextDraft]_vars
    /\ WF_vars(ServerStartDraft)
    /\ WF_vars(ServerDraft)
    /\ WF_vars(ServerValidate)

\* the transitions of the state machine
StageOrder ==
    {<<"IDLE", "COLLECTING_CONTEXT">>, <<"COLLECTING_CONTEXT", "DRAFTING">>,
     <<"DRAFTING", "VALIDATING">>, <<"RETRY_DRAFTING", "VALIDATING">>,
     <<"VALIDATING", "READY">>, <<"VALIDATING", "RETRY_DRAFTING">>,
     <<"VALIDATING", "FAILED">>, <<"READY", "IDLE">>, <<"FAILED", "IDLE">>}

\* C13: a generation request moves through COLLECTING_CONTEXT, DRAFTING and
\* VALIDATING only along the transitions of the state machine, is re-drafted
\* at most RetryBudget times, fails only when that budget is used up, and
\* every accepted request reaches READY or FAILED.
C13_GenerationTerminates ==
    /\ [][srvGen'.stage # srvGen.stage =>
             <<srvGen.stage, srvGen'.stage>> \in StageOrder]_vars
    /\ [](srvGen.redrafts <= RetryBudget)
    /\ [](srvGen.stage = "FAILED" => srvGen.redrafts = RetryBudget)
    /\ (srvGen.stage = "COLLECTING_CONTEXT")
          ~> (srvGen.stage \in {"READY", "FAILED"})

\* the retry budget is exhausted: the third draft was rejected as well
C13_Witness ==
    /\ srvGen.stage = "FAILED"
    /\ srvGen.redrafts = RetryBudget
    /\ genReq.phase = "sent"

\* C14: when the continuation of a generation call runs, the quiz it
\* installs on success is the stored QuizSession and has exactly the
\* requested number of questions; on failure the active quiz is unchanged.
C14_NeverShort ==
    [][(genReq.phase # "idle" /\ genReq'.phase = "idle") =>
          IF genReq.phase = "ok"
          THEN /\ quiz'.id = genReq.data.quiz_id
               /\ quiz'.questions = genReq.body.num_questions
               /\ srvQuizzes[quiz'.id].questions = genReq.body.num_questions
          ELSE quiz' = quiz]_vars

\* a full-size quiz was requested, a draft was rejected and drafted again,
\* and the accepted one is about to be returned
C14_Witness ==
    /\ srvGen.stage = "READY"
    /\ srvGen.redrafts > 0
    /\ genReq.body.num_questions = MaxQuestions
    /\ srvGen.draft.count = MaxQuestions

(* ----------------------------- the score ------------------------------- *)
\* every SubmissionResult held anywhere: stored by the backend, carried by a
\* response in flight, attached to a chat message, or shown by the panel
HeldResults ==
    LET all == {srvResults[q] : q \in QuizIds}
               \cup {r.data : r \in submitReqs}
               \cup {messages[i].quizResult.data : i \in 1..Len(messages)}
               \cup {panel.results}
    IN {d \in all : d.quiz_id # 0}

\* C15: every SubmissionResult has a percentage between 0 and 100 and a
\* correct_count between 0 and its total_questions.
C15_ScoreInRange ==
    \A d \in HeldResults :
        /\ 0 <= d.percentage /\ d.percentage <= 100
        /\ 0 <= d.correct_count /\ d.correct_count <= d.total_questions

\* the panel shows a result that is neither all wrong nor all right
C15_Witness ==
    /\ panelShown
    /\ panel.results \in HeldResults
    /\ 0 < panel.results.correct_count
    /\ panel.results.correct_count < panel.results.total_questions
    /\ \E i \in 1..Len(messages) : messages[i].quizResult.data = panel.results

(* --------------------------- the trajectory log ------------------------ *)
\* every kind of tutor action, answered or failing: chat replies,
\* generation of one-question quizzes, hints and grading
NextTrajectory ==
    \/ ServerSession
    \/ initSession
    \/ sendMessage("explain groups")
    \/ ServerChat
    \/ ChatFails
    \/ sendMessageThen
    \/ generateQuiz(NoTopic, "medium", 1)
    \/ ServerGenerate
    \/ GenerateFails
    \/ generateQuizThen
    \/ \E a \in AnswerChoices : handleSelectAnswer(a)
    \/ handleHint
    \/ \E r \in BagToSet(hintReqs) : ServerHintLookup(r)
    \/ \E r \in BagToSet(hintReqs) : ServerHintReply(r)
    \/ \E r \in BagToSet(hintReqs) : HintFails(r)
    \/ \E r \in BagToSet(hintReqs) : handleHintThen(r)
    \/ handleSubmit
    \/ \E r \in submitReqs : ServerSubmit(r)
    \/ \E r \in submitReqs : SubmitFails(r)
    \/ \E r \in submitReqs : handleSubmitThen(r)

SpecTrajectory == Init /\ [][NextTrajectory]_vars

\* the tutor action a step performs, "" when it performs none: a chat reply
\* is produced, a quiz is generated, a hint is generated, a submission is
\* graded
TutorAction ==
    IF chatReq.phase = "sent" /\ chatReq'.phase = "ok" THEN "response"
    ELSE IF genReq.phase = "sent" /\ genReq'.phase = "ok" THEN "quiz_generation"
    ELSE IF srvHintsGenerated' # srvHintsGenerated THEN "hint"
    ELSE IF srvResults' # srvResults THEN "grading"
    ELSE ""

\* C16: every step keeps the Trajectories already recorded, in place and
\* unchanged; a step that performs a tutor action appends exactly one
\* Trajectory, of that action, and any other step appends none.
C16_AppendOnly ==
    [][/\ Len(srvTrajectories') >= Len(srvTrajectories)
       /\ SubSeq(srvTrajectories', 1, Len(srvTrajectories)) = srvTrajectories
       /\ IF TutorAction = "" THEN srvTrajectories' = srvTrajectories
          ELSE srvTrajectories' =
                   Append(srvTrajectories, Trajectory(TutorAction))]_vars

\* the log holds a Trajectory of each kind
C16_Witness ==
    {srvTrajectories[i].action_type : i \in 1..Len(srvTrajectories)}
        = {"response", "quiz_generation", "hint", "grading"}

(* --------------------------- answers after grading --------------------- *)
\* C17: while the panel holds the results of the displayed quiz, its answers
\* map is the map of the submitted answers, the user_answer of every graded
\* question.
C17_AnswersLocked ==
    (panelShown /\ panel.results.quiz_id # 0 /\ panel.results.quiz_id = quiz.id)
        => panel.answers = savedAnswers(panel.results)

(* ---------------------------- late responses --------------------------- *)
\* the hints the panel holds were given for the displayed quiz
HintsOfDisplayedQuiz ==
    \A k \in DOMAIN panel.hints : panel.hints[k].quiz_id = quiz.id

\* C18: the results and the hints held by the panel belong to the quiz the
\* workspace displays.
C18_ResponsesOfDisplayedQuiz ==
    panelShown =>
        /\ panel.results.quiz_id # 0 => panel.results.quiz_id = quiz.id
        /\ HintsOfDisplayedQuiz

(* --------------------------- the submit control ------------------------ *)
\* C19: whenever the workspace shows a quiz that has not been graded, with
\* every question answered and no submit request in flight, the Submit
\* button is rendered and enabled.
C19_StaysSubmittable ==
    (/\ panelShown
     /\ srvResults[quiz.id].quiz_id = 0
     /\ ResultMessages(quiz.id) = {}
     /\ getAnsweredCount(panel) = totalQuestions
     /\ submitReqs = {})
        => /\ submitShown(panel, reviewMode)
           /\ submitEnabled(panel, totalQuestions)

(* ------------------------------ review mode ---------------------------- *)
\* C20: whenever reviewMode is true a quiz is displayed, some chat message
\* carries a quizResult for its id, and the reviewResults handed to the
\* panel is not null.
C20_ReviewHasResult ==
    reviewMode =>
        /\ quiz.id # 0
        /\ ResultMessages(quiz.id) # {}
        /\ currentQuizResult(messages, quiz, reviewMode) # NoQuizResult

(* ------------------------- C24: initSession ---------------------------- *)
\* the welcome messages initSession writes
WelcomeMessages ==
    {Message("assistant", "Welcome!"), Message("assistant", "Welcome! (offline)")}

\* C24: once initSession has completed, whatever the outcome of the session
\* request, sessionId is non-null and the chat holds exactly one welcome
\* message.
C24_SessionAfterInit ==
    sessionReq.phase = "done" =>
        /\ sessionId # ""
        /\ Cardinality({i \in DOMAIN messages : messages[i] \in WelcomeMessages}) = 1

(* --------------------- C22: the "Generating..." placeholder ------------ *)
\* C22: every placeholder appended by generateQuiz is rewritten when its
\* request completes, so once no generation request is outstanding no
\* message with isSystem true remains, whatever was appended meanwhile.
C22_PlaceholderRewritten ==
    genReq.phase = "idle" => \A i \in DOMAIN messages : ~messages[i].isSystem

(* ------------------------ C23: one reply per message ------------------- *)
\* C23: a sendMessage call with non-blank content and a session appends
\* exactly one user message; when its request completes exactly one
\* assistant message is appended after it, the reply on success and a
\* message flagged isError on failure, and isLoading is cleared.
C23_OneReplyPerMessage ==
    [][/\ (chatReq.phase = "idle" /\ chatReq'.phase = "sent") =>
             /\ messages' = Append(messages, Message("user", chatReq'.message))
             /\ chatReq'.message # ""
             /\ isLoading'
       /\ (chatReq.phase \in {"ok", "fail"} /\ chatReq'.phase = "idle") =>
             /\ Len(messages') = Len(messages) + 1
             /\ SubSeq(messages', 1, Len(messages)) = messages
             /\ messages'[Len(messages')].role = "assistant"
             /\ messages'[Len(messages')].isError = (chatReq.phase = "fail")
             /\ (chatReq.phase = "ok" /\ chatReq.content # "") =>
                    (messages'[Len(messages')].content = chatReq.content)
             /\ \E i \in DOMAIN messages :
                    messages[i] = Message("user", chatReq.message)
             /\ ~isLoading']_vars

\* a failed request has just been answered by its error message
C23_Witness ==
    /\ chatReq.phase = "idle"
    /\ Len(messages) >= 3
    /\ messages[Len(messages)].isError
    /\ messages[Len(messages)].role = "assistant"
    /\ messages[Len(messages) - 1].role = "user"
    /\ ~isLoading

(* ---------------------- C29: the question index ------------------------ *)
\* moving through quizzes of different sizes that replace one another
NextNav ==
    \/ ServerSession
    \/ initSession
    \/ sendMessage("explain groups")
    \/ ServerChat
    \/ sendMessageThen
    \/ \E n \in 1..MaxQuestions : generateQuiz(NoTopic, "medium", n)
    \/ ServerGenerate
    \/ generateQuizThen
    \/ handlePrev
    \/ handleNext
    \/ \E i \in 0..(MaxQuestions - 1) : selectDot(i)
    \/ toggleWorkspace
    \/ closeQuiz

SpecNav == Init /\ [][NextNav]_vars

C30_OpenNeedsQuiz == isWorkspaceOpen => quiz.id # 0

\* the workspace was hidden and shown again while a submission of the
\* displayed quiz was pending
C30_Witness ==
    /\ isWorkspaceOpen
    /\ quiz.id # 0
    /\ \E r \in submitReqs : ~r.live /\ r.quiz.id = quiz.id

(* ------------------ C27: hints name a question of the quiz ------------- *)
\* the hint flow over quizzes of different sizes replacing one another
NextHintSizes ==
    \/ ServerSession
    \/ initSession
    \/ \E n \in 1..MaxQuestions : generateQuiz(NoTopic, "medium", n)
    \/ ServerGenerate
    \/ generateQuizThen
    \/ handleNext
    \/ handleHint
    \/ \E r \in BagToSet(hintReqs) : ServerHintLookup(r)
    \/ \E r \in BagToSet(hintReqs) : ServerHintReply(r)
    \/ \E r \in BagToSet(hintReqs) : handleHintThen(r)

SpecHintSizes == Init /\ [][NextHintSizes]_vars

\* C27: the question_id in the body of every POST quiz/<id>/hint is the id
\* of a question of the quiz whose id is in the URL, so the request never
\* runs into UnknownQuestionError.
C27_HintNamesQuestion ==
    \A r \in BagToSet(hintReqs) :
        /\ r.quiz_id \in 1..Len(srvQuizzes)
        /\ r.question_id \in 1..srvQuizzes[r.quiz_id].questions

\* a hint was given for the second question of a two-question quiz and,
\* after a one-question quiz replaced it, one is asked for that quiz's
\* only question
C27_Witness ==
    \E r \in BagToSet(hintReqs) :
        /\ r.quiz_id = 2 /\ r.question_id = 1
        /\ srvQuizzes[2].questions = 1
        /\ srvQuizzes[1].questions = 2
        /\ srvHintsGenerated[1][2] = 1

(* ======================= chat, quiz and file requests ================== *)
\* the three request kinds that drive isLoading, side by side
NextUpload ==
    \/ ServerSession
    \/ initSession
    \/ sendMessage("explain groups")
    \/ ServerChat
    \/ ChatFails
    \/ sendMessageThen
    \/ handleQuickAction
    \/ ServerGenerate
    \/ GenerateFails
    \/ generateQuizThen
    \/ \E f \in Files : uploadFile(f)
    \/ ServerUpload
    \/ UploadFails
    \/ uploadFileThen

SpecUpload == Init /\ [][NextUpload]_vars

\* a request whose response has not arrived yet
InFlight(req) == req.phase = "sent"
\* a request whose handler has run to its end, or that was never made
Settled(req) == req.phase = "idle"

\* C21: isLoading is true whenever a chat-message, quiz-generation or
\* file-upload request is in flight and false once none is, for every
\* interleaving of sendMessage, generateQuiz and uploadFile.
C21_LoadingTracksRequests ==
    /\ (InFlight(chatReq) \/ InFlight(genReq) \/ InFlight(uploadReq)) => isLoading
    /\ (Settled(chatReq) /\ Settled(genReq) /\ Settled(uploadReq)) => ~isLoading

(* ----------------------- C28: unsupported files ------------------------ *)
\* the files that are neither an image nor a PDF
Unsupported == {f \in Files : ~isImage(f) /\ ~isPDF(f)}

\* C28: a file that is neither an image nor a PDF is rejected without
\* partial state: no upload request, chat message or fileContext entry is
\* ever made for it, and the step that reports it leaves messages,
\* fileContext, isLoading and the requests as they were.
C28_UnsupportedRejected ==
    /\ [](\A f \in Unsupported :
            /\ uploadReq.file_name # f.name
            /\ \A i \in DOMAIN messages : messages[i] # uploadMessage(f)
            /\ \A i \in DOMAIN fileContext : fileContext[i].name # f.name)
    /\ [][alertText' # alertText =>
             UNCHANGED <<appVars, panel, fileContext, uploadingFile, uploadReq,
                         chatReq, genReq>>]_vars

\* an unsupported file was picked and reported while a chat request was
\* pending
C28_Witness ==
    /\ alertText # ""
    /\ InFlight(chatReq) /\ isLoading
    /\ Settled(uploadReq) /\ ~uploadingFile
    /\ fileContext = <<>>

(* -------------------- C25: nothing without a session ------------------- *)
\* the four handlers that talk to the backend on behalf of a session
NextNoSession ==
    \/ ServerSession
    \/ initSession
    \/ sendMessage("explain groups")
    \/ ServerChat
    \/ ChatFails
    \/ sendMessageThen
    \/ generateQuiz(NoTopic, "medium", 1)
    \/ ServerGenerate
    \/ GenerateFails
    \/ generateQuizThen
    \/ handleSelectAnswer("A")
    \/ handleSubmit
    \/ \E r \in submitReqs : ServerSubmit(r)
    \/ \E r \in submitReqs : SubmitFails(r)
    \/ \E r \in submitReqs : handleSubmitThen(r)
    \/ \E f \in Files : uploadFile(f)
    \/ ServerUpload
    \/ UploadFails
    \/ uploadFileThen

SpecNoSession == Init /\ [][NextNoSession]_vars

\* C25: while sessionId is null no request of sendMessage, generateQuiz,
\* submitQuiz or uploadFile has been sent, and messages, quiz, isLoading
\* and reviewMode are as they were at the start.
C25_NothingWithoutSession ==
    sessionId = "" =>
        /\ Settled(chatReq) /\ Settled(genReq) /\ Settled(uploadReq)
        /\ submitReqs = {}
        /\ messages = <<>> /\ quiz = NoQuiz /\ ~isLoading /\ ~reviewMode
        /\ srvHistory = <<>> /\ srvQuizzes = <<>>

\* the session request was refused: the application runs without a session
C25_Witness ==
    /\ sessionId = ""
    /\ sessionReq.phase = "done"
    /\ ENABLED handleQuickAction

(* ------------------------ C26: time_taken_seconds ---------------------- *)
\* one-question quizzes generated, answered and submitted while the clock
\* runs
NextTime ==
    \/ ServerSession
    \/ initSession
    \/ generateQuiz(NoTopic, "medium", 1)
    \/ ServerGenerate
    \/ generateQuizThen
    \/ handleSelectAnswer("A")
    \/ handleSubmit
    \/ \E r \in submitReqs : ServerSubmit(r)
    \/ \E r \in submitReqs : handleSubmitThen(r)
    \/ toggleWorkspace
    \/ Tick

SpecTime == Init /\ [][NextTime]_vars

\* the submissions sent in the current step
Submitted(before, after) ==
    {r \in after : r.phase = "sent" /\ \A o \in before : o.id # r.id}

\* C26: the time_taken_seconds of a submission is the non-negative number
\* of whole seconds between the moment the submitted quiz was first
\* displayed and the moment of submission, also when that quiz replaced
\* another one in a panel that stayed open.  Stated for the submissions of
\* a panel that has been mounted ever since the quiz was first displayed.
C26_TimeSinceDisplayed ==
    [][\A r \in Submitted(submitReqs, submitReqs') :
          (shownAt[r.quiz.id] >= panel.startTime) =>
              (r.timeTaken >= 0 /\ r.timeTaken = now - shownAt[r.quiz.id])]_vars

(* ----------------------- C31: the chat log grows ----------------------- *)
\* m2 is m1 with at most its content and its flags rewritten
Rewritten(m1, m2) ==
    m2 = [m1 EXCEPT !.content = m2.content, !.isSystem = m2.isSystem,
                    !.isError = m2.isError]

\* C31: once the session is initialized the chat log only grows: no step
\* removes or reorders a message, and the only change to an existing
\* message is the rewrite of the content and flags of the last message
\* when it is a quiz-generation placeholder (isSystem).
C31_ChatOnlyGrows ==
    [][sessionReq.phase = "done" =>
          /\ Len(messages') >= Len(messages)
          /\ \A i \in DOMAIN messages :
                \/ messages'[i] = messages[i]
                \/ /\ i = Len(messages)
                   /\ messages[i].isSystem
                   /\ Rewritten(messages[i], messages'[i])]_vars

\* a placeholder was rewritten in place to the failure text and further
\* messages were appended after it
C31_Witness ==
    /\ sessionReq.phase = "done"
    /\ \E i \in DOMAIN messages :
          /\ i < Len(messages)
          /\ messages[i].content = "I couldn't generate the quiz"
          /\ messages[i].isError /\ ~messages[i].isSystem

====
